---------------------------- MODULE Spec2Model ----------------------------
(***************************************************************************)
(* A model of hackita.ts, the Bitbucket activity analyzer.                 *)
(*                                                                         *)
(* The program is one Node.js process running BitbucketAnalyzer.run().     *)
(* JavaScript runs every synchronous stretch of code to completion, so an  *)
(* action of the model is one turn of the event loop: the code from the    *)
(* completion of an awaited request (or timer) up to the next await.       *)
(*                                                                         *)
(* Text is modelled as a sequence of characters.  A character is a         *)
(* one-character string; the two non-ASCII letters of the model are named  *)
(* by their code point ("U+00C9" is LATIN CAPITAL LETTER E WITH ACUTE),    *)
(* and "TAB" is the tab character.                                         *)
(***************************************************************************)
EXTENDS Integers, Sequences, FiniteSets, TLC

(***************************************************************************)
(* Bounds of the model.                                                    *)
(***************************************************************************)
\* Most repositories the workspace holds on the server.
MaxRepos == 2
\* Most items (commits and pull requests together) the server holds.
MaxItems == 2
\* Longest repository name given to the name normalizer on its own.
MaxNameLen == 3

(***************************************************************************)
(* Name normalization: hackita.ts lines 214-215 and 265-266.               *)
(***************************************************************************)
\* String.prototype.toLowerCase on one character.
ToLowerChar(c) ==
    CASE c = "A" -> "a"
      [] c = "B" -> "b"
      [] c = "C" -> "c"
      [] c = "R" -> "r"
      [] c = "W" -> "w"
      [] c = "U+00C9" -> "U+00E9"
      [] OTHER -> c

\* repoName.toLowerCase()
ToLowerCase(s) == [i \in 1..Len(s) |-> ToLowerChar(s[i])]

\* The characters the regular expression \s matches.
IsWhitespace(c) == c \in {" ", "TAB"}

RECURSIVE SkipWhitespace(_)
SkipWhitespace(s) ==
    IF s # <<>> /\ IsWhitespace(Head(s)) THEN SkipWhitespace(Tail(s)) ELSE s

\* As ReplaceWhitespace, had the regular expression no g flag: only the
\* first run of whitespace becomes a hyphen.
ReplaceWhitespace_FirstOnly(s) ==
    IF s = <<>> THEN <<>>
    ELSE LET first == CHOOSE i \in 1..(Len(s) + 1) :
                         /\ i <= Len(s) => IsWhitespace(s[i])
                         /\ \A j \in 1..(i - 1) : ~IsWhitespace(s[j])
         IN  IF first > Len(s) THEN s
             ELSE SubSeq(s, 1, first - 1) \o <<"-">>
                     \o SkipWhitespace(SubSeq(s, first, Len(s)))

\* .replace(/\s+/g, '-'): every run of whitespace becomes one hyphen.
RECURSIVE ReplaceWhitespace(_)
ReplaceWhitespace(s) ==
    IF s = <<>> THEN <<>>
    ELSE IF IsWhitespace(Head(s))
         THEN <<"-">> \o ReplaceWhitespace(SkipWhitespace(Tail(s)))
         ELSE <<Head(s)>> \o ReplaceWhitespace(Tail(s))

\* .replace(/[()]/g, ''): parentheses are removed.
RemoveParens(s) == SelectSeq(s, LAMBDA c : c \notin {"(", ")"})

\* The UTF-8 percent-encoding encodeURIComponent gives the characters of the
\* model that are not unreserved (letters, digits and - _ . ! ~ * ' ( ) are).
PercentCode ==
    [c \in {"%", " ", "TAB", "#", "&", "+", "U+00C9", "U+00E9"} |->
        CASE c = "%" -> <<"%", "2", "5">>
          [] c = " " -> <<"%", "2", "0">>
          [] c = "TAB" -> <<"%", "0", "9">>
          [] c = "#" -> <<"%", "2", "3">>
          [] c = "&" -> <<"%", "2", "6">>
          [] c = "+" -> <<"%", "2", "B">>
          [] c = "U+00C9" -> <<"%", "C", "3", "%", "8", "9">>
          [] c = "U+00E9" -> <<"%", "C", "3", "%", "A", "9">>]

EncodeChar(c) == IF c \in DOMAIN PercentCode THEN PercentCode[c] ELSE <<c>>

RECURSIVE EncodeURIComponent(_)
EncodeURIComponent(s) ==
    IF s = <<>> THEN <<>> ELSE EncodeChar(Head(s)) \o EncodeURIComponent(Tail(s))

\* normalizedRepoName of fetchCommits and fetchPullRequests.
NormalizeRepoName(repoName) == RemoveParens(ReplaceWhitespace(ToLowerCase(repoName)))

\* encodedRepoName: the path segment requests are made with.
EncodedRepoName(repoName) == EncodeURIComponent(NormalizeRepoName(repoName))

\* encodedWorkspace
EncodedWorkspace(workspace) == EncodeURIComponent(ToLowerCase(workspace))

(***************************************************************************)
(* Configuration: interface Config (lines 7-12) and loadConfig.            *)
(***************************************************************************)
\* The workspace, username and app password a complete configuration names.
WorkspaceName == <<"W", "s">>
UserName == "user"
AppPassword == "secret"

\* bitbucket-config.json in the working directory: absent; present but
\* unreadable or not JSON ("corrupt"); or parsed, holding some of the fields.
ConfigFiles ==
    {[state |-> "absent", workspace |-> FALSE, username |-> FALSE, appPassword |-> FALSE],
     [state |-> "corrupt", workspace |-> FALSE, username |-> FALSE, appPassword |-> FALSE]}
    \cup [state : {"parsed"}, workspace : BOOLEAN, username : BOOLEAN,
          appPassword : BOOLEAN]

\* process.env: which of BITBUCKET_WORKSPACE, BITBUCKET_USERNAME and
\* BITBUCKET_APP_PASSWORD are set to a non-empty value.
Environments == [workspace : BOOLEAN, username : BOOLEAN, appPassword : BOOLEAN]

\* Buffer.from(`${username}:${appPassword}`).toString('base64'): base64 is
\* one-to-one, so the token is modelled by the pair it encodes.  A missing
\* field is interpolated as the text "undefined".
AuthToken(hasUser, hasPassword) ==
    <<IF hasUser THEN UserName ELSE "undefined",
      IF hasPassword THEN AppPassword ELSE "undefined">>

\* loadConfig(): its return value and the fields it sets.  A parsed file is
\* taken as it is, whatever fields it lacks; <<>> is undefined/null.
LoadConfig(file, environment) ==
    IF file.state = "parsed"
    THEN [ok |-> TRUE,
          workspace |-> IF file.workspace THEN WorkspaceName ELSE <<>>,
          auth |-> AuthToken(file.username, file.appPassword)]
    ELSE IF environment.username /\ environment.appPassword /\ environment.workspace
         THEN [ok |-> TRUE, workspace |-> WorkspaceName, auth |-> AuthToken(TRUE, TRUE)]
         ELSE [ok |-> FALSE, workspace |-> <<>>, auth |-> <<>>]

\* What createSampleConfig() writes.
SampleConfig ==
    [state |-> "parsed", workspace |-> TRUE, username |-> TRUE, appPassword |-> TRUE]

(***************************************************************************)
(* The date range and the fallback ladders.                                *)
(***************************************************************************)
\* getDateRange(): [now - 7 days, now], as instants.
dateRange == [start |-> 2, end |-> 3]

\* The pagelen of each endpoint of a ladder, in the order tried; 0 is the
\* endpoint without a pagelen parameter.
ListEndpoints == <<100, 50, 0>>
CommitEndpoints == <<50, 0>>
\* As PullRequestEndpoints, with the two page sizes in the wrong order.
PullRequestEndpoints_Swapped == <<25, 50, 0>>
PullRequestEndpoints == <<50, 25, 0>>

(***************************************************************************)
(* Stats: two maps from contributor to records.  A JavaScript object keeps *)
(* its own keys in insertion order, so a map is a sequence of entries.     *)
(***************************************************************************)
\* Properties every object literal inherits from Object.prototype: read
\* through stats.commits[key] they are truthy, and none is an array.
ObjectPrototypeKeys ==
    {"constructor", "__proto__", "toString", "valueOf", "hasOwnProperty"}

OwnKeys(map) == {map[i].key : i \in 1..Len(map)}

\* !map[key] is false: the key is an own key or an inherited property.
IsTruthy(map, key) == key \in OwnKeys(map) \/ key \in ObjectPrototypeKeys

\* if (!map[key]) map[key] = []; map[key].push(rec), for a key whose value
\* is an array.
PushRecord(map, key, rec) ==
    IF key \in OwnKeys(map)
    THEN [i \in 1..Len(map) |->
            IF map[i].key = key
            THEN [map[i] EXCEPT !.records = Append(@, rec)]
            ELSE map[i]]
    ELSE Append(map, [key |-> key, records |-> <<rec>>])

\* The date filter of lines 226-229 and 278-281: both ends inclusive.
InDateRange(date, range) == date >= range.start /\ date <= range.end

\* author.raw || author.user?.display_name || 'Unknown', then
\* split('<')[0].trim().  A raw author "Name <email>" is the pair
\* <<name, email>>, and <<>> when the field is missing or empty.
CommitAuthorKey(author) ==
    IF author.raw # <<>> THEN author.raw[1]
    ELSE IF author.user # "" THEN author.user
    ELSE "Unknown"

\* pr.author.display_name || pr.author.username || 'Unknown'
PullRequestAuthorKey(author) ==
    IF author.display_name # "" THEN author.display_name
    ELSE IF author.username # "" THEN author.username
    ELSE "Unknown"

\* commit.hash.substring(0, 7): a hash is the pair <<first seven, rest>>.
ShortHash(hash) == hash[1]

CommitRecord(repoName, commit) ==
    [repo |-> repoName, hash |-> ShortHash(commit.hash), date |-> commit.date]

PullRequestRecord(repoName, pr) ==
    [repo |-> repoName, id |-> pr.id, created |-> pr.created_on]

\* commits.forEach(...) of lines 231-245.  The loop stops with a TypeError
\* at the first author key that is an inherited property and not an own
\* key (its value has no push); the records pushed before it stay.
RECURSIVE PushCommits(_, _, _)
PushCommits(map, repoName, commits) ==
    IF commits = <<>> THEN [map |-> map, threw |-> FALSE]
    ELSE LET key == CommitAuthorKey(Head(commits).author)
         IN  IF IsTruthy(map, key) /\ key \notin OwnKeys(map)
             THEN [map |-> map, threw |-> TRUE]
             ELSE PushCommits(PushRecord(map, key, CommitRecord(repoName, Head(commits))),
                              repoName, Tail(commits))

\* prs.forEach(...) of lines 283-298.
RECURSIVE PushPullRequests(_, _, _)
PushPullRequests(map, repoName, prs) ==
    IF prs = <<>> THEN [map |-> map, threw |-> FALSE]
    ELSE LET key == PullRequestAuthorKey(Head(prs).author)
         IN  IF IsTruthy(map, key) /\ key \notin OwnKeys(map)
             THEN [map |-> map, threw |-> TRUE]
             ELSE PushPullRequests(
                      PushRecord(map, key, PullRequestRecord(repoName, Head(prs))),
                      repoName, Tail(prs))

\* response.values.filter(...) of fetchCommits.
FilterCommits(values, range) == SelectSeq(values, LAMBDA c : InDateRange(c.date, range))

\* response.values.filter(...) of fetchPullRequests.
FilterPullRequests(values, range) ==
    SelectSeq(values, LAMBDA p : InDateRange(p.created_on, range))

(***************************************************************************)
(* generateReport.                                                         *)
(***************************************************************************)
RECURSIVE SumLengths(_)
SumLengths(map) ==
    IF map = <<>> THEN 0 ELSE Len(Head(map).records) + SumLengths(Tail(map))

\* Array.prototype.sort with (a, b) => count[b] - count[a]: stable,
\* descending by count.
RECURSIVE InsertByCount(_, _)
InsertByCount(sorted, entry) ==
    IF sorted = <<>> THEN <<entry>>
    ELSE IF Len(Head(sorted).records) >= Len(entry.records)
         THEN <<Head(sorted)>> \o InsertByCount(Tail(sorted), entry)
         ELSE <<entry>> \o sorted

RECURSIVE SortByCount(_)
SortByCount(map) ==
    IF map = <<>> THEN <<>>
    ELSE InsertByCount(SortByCount(SubSeq(map, 1, Len(map) - 1)), map[Len(map)])

SummaryLines(map) ==
    LET sorted == SortByCount(map)
    IN  [i \in 1..Len(sorted) |-> <<sorted[i].key, Len(sorted[i].records)>>]

\* What generateReport prints (the per-record lines of --verbose left out).
GenerateReport(st, repositories) ==
    [commitLines |-> SummaryLines(st.commits),
     prLines |-> SummaryLines(st.pullRequests),
     totalCommits |-> SumLengths(st.commits),
     totalPRs |-> SumLengths(st.pullRequests),
     contributors |-> Cardinality(OwnKeys(st.commits) \cup OwnKeys(st.pullRequests)),
     repositories |-> Len(repositories)]

(***************************************************************************)
(* The Bitbucket server: the workspace's repositories and, for each, the   *)
(* page of commits and of merged pull requests its endpoints answer with.  *)
(* Responses have the shape of the BitbucketResponse interfaces            *)
(* (lines 40-70).                                                          *)
(***************************************************************************)
\* Names of the workspace's repositories, in the server's order.
RepoNames == << <<"R", "1">>, <<"r", " ", "2">>, <<"(", "B", ")", "3">>, <<"C", "4">> >>

CommitAuthors ==
    {[raw |-> <<"Alice", "alice@x.io">>, user |-> "Alice A"],
     [raw |-> <<"constructor", "c@x.io">>, user |-> ""],
     [raw |-> <<>>, user |-> "Bob"]}

PullRequestAuthors ==
    {[display_name |-> "Alice", username |-> "alice"],
     [display_name |-> "constructor", username |-> "ctor"],
     [display_name |-> "", username |-> "bob"]}

\* Instants before, at the ends of, and after the date range.
ItemDates == {dateRange.start - 1, dateRange.start, dateRange.end, dateRange.end + 1}

SeqsUpTo(S, n) == UNION {[1..m -> S] : m \in 0..n}

\* An item put on the server: the items of a repository are its page, in
\* the order placed.
Placements(n, dates, commitAuthors, prAuthors) ==
    [kind : {"commits"}, repo : 1..n, date : dates, author : commitAuthors]
    \cup [kind : {"pullrequests"}, repo : 1..n, date : dates, author : prAuthors]

PlacedItems(ps, kind, repo) == SelectSeq(ps, LAMBDA p : p.kind = kind /\ p.repo = repo)

\* A page of commits: the i-th has the hash <<i, "rest">> (its first seven
\* characters, and the rest).
CommitPage(items) ==
    [i \in 1..Len(items) |->
        [hash |-> <<i, "rest">>, date |-> items[i].date, author |-> items[i].author]]

\* A page of pull requests: the i-th has the id i.
PullRequestPage(items) ==
    [i \in 1..Len(items) |->
        [id |-> i, created_on |-> items[i].date, author |-> items[i].author]]

\* The server holding the first n repositories and the placed items; the
\* pages are kept by the path segment a request names the repository with.
BuildServer(n, ps) ==
    LET slugs == {EncodedRepoName(RepoNames[i]) : i \in 1..n}
        index(slug) == CHOOSE i \in 1..n : EncodedRepoName(RepoNames[i]) = slug
    IN  [repos |-> SubSeq(RepoNames, 1, n),
         commits |->
             [slug \in slugs |-> CommitPage(PlacedItems(ps, "commits", index(slug)))],
         pullrequests |->
             [slug \in slugs |->
                 PullRequestPage(PlacedItems(ps, "pullrequests", index(slug)))]]

Servers(dates, commitAuthors, prAuthors) ==
    UNION {{BuildServer(n, ps) :
               ps \in SeqsUpTo(Placements(n, dates, commitAuthors, prAuthors), MaxItems)} :
           n \in 0..MaxRepos}

(***************************************************************************)
(* State.                                                                  *)
(***************************************************************************)
VARIABLES
    argv,          \* the flags of the command line
    cfgFile,       \* bitbucket-config.json
    env,           \* process.env
    server,        \* the Bitbucket server's content
    pc,            \* where run() is
    exitCode,      \* the process's exit code; -1 while it runs
    workspace,     \* this.workspace; <<>> is null/undefined
    auth,          \* this.auth; <<>> is null
    repos,         \* this.repos
    stats,         \* this.stats
    totalCommits,  \* run()'s totalCommits
    totalPRs,      \* run()'s totalPRs
    cur,           \* index in this.repos of the repository being processed
    listing,       \* getRepositories' ladder
    commitFetch,   \* fetchCommits' ladder for the current repository
    prFetch,       \* fetchPullRequests' ladder for the current repository
    network,       \* the requests makeRequest has sent that have not settled
    progress,      \* the "<n> commits, <m> PRs" lines printed (line 427)
    warnings,      \* the console.warn lines printed (lines 251 and 304)
    reports,       \* the reports printed by generateReport
    nameIn,        \* the name normalizer on its own: its input,
    nameOut        \* and the path segments made of it so far

vars == <<argv, cfgFile, env, server, pc, exitCode, workspace, auth, repos, stats,
          totalCommits, totalPRs, cur, listing, commitFetch, prFetch, network,
          progress, warnings, reports, nameIn, nameOut>>

\* A ladder: the endpoint being awaited (step) and how the endpoints tried
\* ended ("rejected": makeRequest rejected; "threw": the response came and
\* handling it threw; "ok").  A ladder that has returned keeps only how its
\* last endpoint ended, and the count it returned.
IdleLadder == [state |-> "idle", step |-> 0, tried |-> <<>>, result |-> 0]
FirstRequest == [state |-> "pending", step |-> 1, tried |-> <<>>, result |-> 0]
NextRequest(ladder, outcome) ==
    [state |-> "pending", step |-> ladder.step + 1,
     tried |-> Append(ladder.tried, outcome), result |-> 0]
Returned(ladder, outcome, n) ==
    [state |-> "returned", step |-> 0, tried |-> <<outcome>>, result |-> n]

\* The request makeRequest sends for an endpoint: its path and its pagelen.
Request(kind, ws, repoName, pagelen) ==
    [kind |-> kind, workspace |-> EncodedWorkspace(ws),
     repo |-> IF kind = "repositories" THEN <<>> ELSE EncodedRepoName(repoName),
     pagelen |-> pagelen]

InitProgram ==
    /\ pc = "start"
    /\ exitCode = -1
    /\ workspace = <<>>
    /\ auth = <<>>
    /\ repos = <<>>
    /\ stats = [commits |-> <<>>, pullRequests |-> <<>>]
    /\ totalCommits = 0
    /\ totalPRs = 0
    /\ cur = 0
    /\ listing = IdleLadder
    /\ commitFetch = IdleLadder
    /\ prFetch = IdleLadder
    /\ network = {}
    /\ progress = <<>>
    /\ warnings = {}
    /\ reports = <<>>


(***************************************************************************)
(* run(): lines 377-440.                                                   *)
(***************************************************************************)
\* The parts of the state a step before the listing leaves alone.
collectVars == <<repos, stats, totalCommits, totalPRs, cur, commitFetch, prFetch,
                 progress, warnings, reports>>
worldVars == <<argv, env, server, nameIn, nameOut>>

\* --help or -h: showHelp(), return.
ShowHelp ==
    /\ pc = "start"
    /\ "--help" \in argv
    /\ pc' = "returned"
    /\ exitCode' = 0
    /\ UNCHANGED <<worldVars, cfgFile, workspace, auth, listing, network, collectVars>>

\* --create-config: createSampleConfig(), return.
CreateConfig ==
    /\ pc = "start"
    /\ "--help" \notin argv
    /\ "--create-config" \in argv
    /\ cfgFile' = SampleConfig
    /\ pc' = "returned"
    /\ exitCode' = 0
    /\ UNCHANGED <<worldVars, workspace, auth, listing, network, collectVars>>

\* loadConfig() returns false: process.exit(1) at line 398.
ConfigMissing ==
    /\ pc = "start"
    /\ argv = {}
    /\ ~LoadConfig(cfgFile, env).ok
    /\ pc' = "exited"
    /\ exitCode' = 1
    /\ UNCHANGED <<worldVars, cfgFile, workspace, auth, listing, network, collectVars>>

\* loadConfig() returns true on a file without a workspace:
\* this.workspace!.toLowerCase() at line 171 throws, getRepositories'
\* promise rejects, and the catch of line 436 exits.
WorkspaceUndefined ==
    /\ pc = "start"
    /\ argv = {}
    /\ LoadConfig(cfgFile, env).ok
    /\ LoadConfig(cfgFile, env).workspace = <<>>
    /\ workspace' = <<>>
    /\ auth' = LoadConfig(cfgFile, env).auth
    /\ pc' = "exited"
    /\ exitCode' = 1
    /\ UNCHANGED <<worldVars, cfgFile, listing, network, collectVars>>

\* loadConfig() returns true: getRepositories() sends its first request.
StartListing ==
    /\ pc = "start"
    /\ argv = {}
    /\ LoadConfig(cfgFile, env).ok
    /\ LoadConfig(cfgFile, env).workspace # <<>>
    /\ workspace' = LoadConfig(cfgFile, env).workspace
    /\ auth' = LoadConfig(cfgFile, env).auth
    /\ listing' = FirstRequest
    /\ network' = network \cup {Request("repositories", workspace', <<>>, ListEndpoints[1])}
    /\ pc' = "listing"
    /\ UNCHANGED <<worldVars, cfgFile, exitCode, collectVars>>

\* The body of the loop of line 416 up to its await: fetchCommits and
\* fetchPullRequests each run to their first makeRequest.  net is the
\* network as the step so far leaves it.
StartRepo(i, repositories, net) ==
    /\ cur' = i
    /\ commitFetch' = FirstRequest
    /\ prFetch' = FirstRequest
    /\ network' = net \cup {Request("commits", workspace, repositories[i],
                                    CommitEndpoints[1]),
                            Request("pullrequests", workspace, repositories[i],
                                    PullRequestEndpoints[1])}
    /\ pc' = "collecting"
    /\ UNCHANGED <<exitCode, reports>>

\* The loop is over: generateReport(), and run() returns.
Finish(repositories, net) ==
    /\ reports' = Append(reports, GenerateReport(stats, repositories))
    /\ network' = net
    /\ pc' = "done"
    /\ exitCode' = 0
    /\ UNCHANGED <<cur, commitFetch, prFetch>>

\* The page of repositories a listing request is answered with: all of a
\* workspace that fits on one page, else a first page.
FirstPages(all) == {SubSeq(all, 1, k) : k \in (IF all = <<>> THEN {0} ELSE 1..Len(all))}

\* As ListOk, were the names of the configuration's excludeRepos taken out
\* of the listed repositories before collection.
ListOk_Excluding ==
    /\ pc = "listing"
    /\ listing.state = "pending"
    /\ \E req \in network, page \in FirstPages(server.repos) :
          /\ req.kind = "repositories"
          /\ repos' = SelectSeq(page, LAMBDA name : name \notin cfgFile.excludeRepos)
          /\ listing' = Returned(listing, "ok", Len(page))
          /\ IF repos' = <<>>
             THEN Finish(repos', network \ {req})
             ELSE StartRepo(1, repos', network \ {req})
    /\ UNCHANGED <<worldVars, cfgFile, workspace, auth, stats, totalCommits, totalPRs,
                   progress, warnings>>

\* A listing request resolves (lines 182-185), and run() goes on to the
\* first repository, or to the report when there is none.
ListOk ==
    /\ pc = "listing"
    /\ listing.state = "pending"
    /\ \E req \in network, page \in FirstPages(server.repos) :
          /\ req.kind = "repositories"
          /\ repos' = page
          /\ listing' = Returned(listing, "ok", Len(page))
          /\ IF page = <<>>
             THEN Finish(page, network \ {req})
             ELSE StartRepo(1, page, network \ {req})
    /\ UNCHANGED <<worldVars, cfgFile, workspace, auth, stats, totalCommits, totalPRs,
                   progress, warnings>>

\* As ListRejected, were the last rejection not thrown: getRepositories
\* falls to its return [] of line 196 and run() goes on to the report.
ListRejected_ReturnsEmpty ==
    /\ pc = "listing"
    /\ listing.state = "pending"
    /\ \E req \in network :
          /\ req.kind = "repositories"
          /\ IF listing.step < Len(ListEndpoints)
             THEN /\ listing' = NextRequest(listing, "rejected")
                  /\ network' = (network \ {req})
                        \cup {Request("repositories", workspace, <<>>,
                                      ListEndpoints[listing.step + 1])}
                  /\ UNCHANGED <<pc, exitCode, reports, cur, commitFetch, prFetch>>
             ELSE /\ listing' = [listing EXCEPT !.state = "failed",
                                                !.tried = Append(@, "rejected")]
                  /\ Finish(<<>>, network \ {req})
    /\ UNCHANGED <<worldVars, cfgFile, workspace, auth, repos, stats, totalCommits,
                   totalPRs, progress, warnings>>

\* A listing request rejects (lines 186-193): the next endpoint, or after
\* the last one the error that ends run() at line 438.
ListRejected ==
    /\ pc = "listing"
    /\ listing.state = "pending"
    /\ \E req \in network :
          /\ req.kind = "repositories"
          /\ IF listing.step < Len(ListEndpoints)
             THEN /\ listing' = NextRequest(listing, "rejected")
                  /\ network' = (network \ {req})
                        \cup {Request("repositories", workspace, <<>>,
                                      ListEndpoints[listing.step + 1])}
                  /\ UNCHANGED <<pc, exitCode>>
             ELSE /\ listing' = [listing EXCEPT !.state = "failed",
                                                !.tried = Append(@, "rejected")]
                  /\ network' = network \ {req}
                  /\ pc' = "exited"
                  /\ exitCode' = 1
    /\ UNCHANGED <<worldVars, cfgFile, workspace, auth, collectVars>>

\* As Join, were the two fetches awaited with Promise.race: run() goes on as
\* soon as one of them has returned.
Join_Race(commits, prs) ==
    /\ commitFetch' = commits
    /\ prFetch' = prs
    /\ IF commits.state = "returned" \/ prs.state = "returned"
       THEN /\ totalCommits' = totalCommits + commits.result
            /\ totalPRs' = totalPRs + prs.result
            /\ progress' = Append(progress, [repo |-> repos[cur],
                                             commits |-> commits.result,
                                             prs |-> prs.result])
            /\ pc' = "delay"
       ELSE UNCHANGED <<totalCommits, totalPRs, progress, pc>>

\* Promise.all of line 419: once both fetches have returned, lines 424-430
\* add the counts, print them and start the 100 ms timer.
Join(commits, prs) ==
    /\ commitFetch' = commits
    /\ prFetch' = prs
    /\ IF commits.state = "returned" /\ prs.state = "returned"
       THEN /\ totalCommits' = totalCommits + commits.result
            /\ totalPRs' = totalPRs + prs.result
            /\ progress' = Append(progress, [repo |-> repos[cur],
                                             commits |-> commits.result,
                                             prs |-> prs.result])
            /\ pc' = "delay"
       ELSE UNCHANGED <<totalCommits, totalPRs, progress, pc>>

\* As AfterFailure, were the failure of the last endpoint thrown on, as
\* getRepositories throws it: the fetch never returns a count.
AfterFailure_Rethrows(ladder, endpoints, outcome) ==
    IF ladder.step < Len(endpoints)
    THEN NextRequest(ladder, outcome)
    ELSE [state |-> "failed", step |-> 0, tried |-> <<outcome>>, result |-> 0]

\* How a fetch goes on when its handling of an endpoint ends in the catch
\* (lines 248-256 and 301-309): the next endpoint, or 0 after the last.
AfterFailure(ladder, endpoints, outcome) ==
    IF ladder.step < Len(endpoints)
    THEN NextRequest(ladder, outcome)
    ELSE Returned(ladder, outcome, 0)

\* The request the fetch sends next, if it goes on.
Retry(ladder, endpoints, kind) ==
    IF ladder.step < Len(endpoints)
    THEN {Request(kind, workspace, repos[cur], endpoints[ladder.step + 1])}
    ELSE {}

\* console.warn, at the last endpoint only.
Warned(ladder, endpoints, kind, error) ==
    IF ladder.step < Len(endpoints)
    THEN warnings
    ELSE warnings \cup {[kind |-> kind, repo |-> repos[cur], error |-> error]}

\* A commits request resolves: lines 225-247, and the catch when the
\* forEach throws.
CommitsOk ==
    /\ pc = "collecting"
    /\ commitFetch.state = "pending"
    /\ \E req \in network :
          /\ req.kind = "commits"
          /\ LET repoName == repos[cur]
                 commits == FilterCommits(server.commits[req.repo], dateRange)
                 pushed == PushCommits(stats.commits, repoName, commits)
             IN  /\ stats' = [stats EXCEPT !.commits = pushed.map]
                 /\ IF pushed.threw
                    THEN /\ warnings' = Warned(commitFetch, CommitEndpoints, "commits",
                                               "TypeError")
                         /\ network' = (network \ {req})
                               \cup Retry(commitFetch, CommitEndpoints, "commits")
                         /\ Join(AfterFailure(commitFetch, CommitEndpoints, "threw"),
                                 prFetch)
                    ELSE /\ warnings' = warnings
                         /\ network' = network \ {req}
                         /\ Join(Returned(commitFetch, "ok", Len(commits)), prFetch)
    /\ UNCHANGED <<worldVars, cfgFile, workspace, auth, repos, cur, listing, reports,
                   exitCode>>

\* A commits request rejects: a status other than 200, a body that is not
\* JSON, a socket error or the 30 s timeout (lines 151-162).
CommitsRejected ==
    /\ pc = "collecting"
    /\ commitFetch.state = "pending"
    /\ \E req \in network :
          /\ req.kind = "commits"
          /\ network' = (network \ {req}) \cup Retry(commitFetch, CommitEndpoints, "commits")
    /\ warnings' = Warned(commitFetch, CommitEndpoints, "commits", "request failed")
    /\ Join(AfterFailure(commitFetch, CommitEndpoints, "rejected"), prFetch)
    /\ UNCHANGED <<worldVars, cfgFile, workspace, auth, repos, cur, listing, reports,
                   exitCode, stats>>

\* As PullRequestsOk, were the pull-request records kept in the mapping the
\* commit records are kept in: the two fetches then append to the same
\* sequences.
PullRequestsOk_SharedMapping ==
    /\ pc = "collecting"
    /\ prFetch.state = "pending"
    /\ \E req \in network :
          /\ req.kind = "pullrequests"
          /\ LET repoName == repos[cur]
                 prs == FilterPullRequests(server.pullrequests[req.repo], dateRange)
                 pushed == PushPullRequests(stats.commits, repoName, prs)
             IN  /\ stats' = [stats EXCEPT !.commits = pushed.map]
                 /\ IF pushed.threw
                    THEN /\ warnings' = Warned(prFetch, PullRequestEndpoints,
                                               "pullrequests", "TypeError")
                         /\ network' = (network \ {req})
                               \cup Retry(prFetch, PullRequestEndpoints, "pullrequests")
                         /\ Join(commitFetch,
                                 AfterFailure(prFetch, PullRequestEndpoints, "threw"))
                    ELSE /\ warnings' = warnings
                         /\ network' = network \ {req}
                         /\ Join(commitFetch, Returned(prFetch, "ok", Len(prs)))
    /\ UNCHANGED <<worldVars, cfgFile, workspace, auth, repos, cur, listing, reports,
                   exitCode>>

\* A pull-requests request resolves: lines 277-300, and the catch when the
\* forEach throws.
PullRequestsOk ==
    /\ pc = "collecting"
    /\ prFetch.state = "pending"
    /\ \E req \in network :
          /\ req.kind = "pullrequests"
          /\ LET repoName == repos[cur]
                 prs == FilterPullRequests(server.pullrequests[req.repo], dateRange)
                 pushed == PushPullRequests(stats.pullRequests, repoName, prs)
             IN  /\ stats' = [stats EXCEPT !.pullRequests = pushed.map]
                 /\ IF pushed.threw
                    THEN /\ warnings' = Warned(prFetch, PullRequestEndpoints,
                                               "pullrequests", "TypeError")
                         /\ network' = (network \ {req})
                               \cup Retry(prFetch, PullRequestEndpoints, "pullrequests")
                         /\ Join(commitFetch,
                                 AfterFailure(prFetch, PullRequestEndpoints, "threw"))
                    ELSE /\ warnings' = warnings
                         /\ network' = network \ {req}
                         /\ Join(commitFetch, Returned(prFetch, "ok", Len(prs)))
    /\ UNCHANGED <<worldVars, cfgFile, workspace, auth, repos, cur, listing, reports,
                   exitCode>>

\* A pull-requests request rejects.
PullRequestsRejected ==
    /\ pc = "collecting"
    /\ prFetch.state = "pending"
    /\ \E req \in network :
          /\ req.kind = "pullrequests"
          /\ network' = (network \ {req})
                \cup Retry(prFetch, PullRequestEndpoints, "pullrequests")
    /\ warnings' = Warned(prFetch, PullRequestEndpoints, "pullrequests", "request failed")
    /\ Join(commitFetch, AfterFailure(prFetch, PullRequestEndpoints, "rejected"))
    /\ UNCHANGED <<worldVars, cfgFile, workspace, auth, repos, cur, listing, reports,
                   exitCode, stats>>

\* The 100 ms timer of line 430 fires: the next repository, or the report.
DelayElapsed ==
    /\ pc = "delay"
    /\ IF cur < Len(repos)
       THEN StartRepo(cur + 1, repos, network)
       ELSE Finish(repos, network)
    /\ UNCHANGED <<worldVars, cfgFile, workspace, auth, repos, stats, totalCommits,
                   totalPRs, listing, progress, warnings>>

Next ==
    \/ ShowHelp
    \/ CreateConfig
    \/ ConfigMissing
    \/ WorkspaceUndefined
    \/ StartListing
    \/ ListOk
    \/ ListRejected
    \/ CommitsOk
    \/ CommitsRejected
    \/ PullRequestsOk
    \/ PullRequestsRejected
    \/ DelayElapsed

NoEnvironment == [workspace |-> FALSE, username |-> FALSE, appPassword |-> FALSE]
FullEnvironment == [workspace |-> TRUE, username |-> TRUE, appPassword |-> TRUE]
AbsentFile ==
    [state |-> "absent", workspace |-> FALSE, username |-> FALSE, appPassword |-> FALSE]

\* Every configuration: what the file holds, and what the environment.
AllConfigs == ConfigFiles \X Environments

\* One configuration of each way loadConfig and line 171 can go: nothing
\* configured, the environment, a complete file, a file without workspace.
MainConfigs ==
    {<<AbsentFile, NoEnvironment>>,
     <<AbsentFile, FullEnvironment>>,
     <<SampleConfig, NoEnvironment>>,
     <<[SampleConfig EXCEPT !.workspace = FALSE], NoEnvironment>>}

InitWith(configs, servers) ==
    /\ InitProgram
    /\ argv \in SUBSET {"--help", "--create-config"}
    /\ \E c \in configs : cfgFile = c[1] /\ env = c[2]
    /\ server \in servers
    /\ nameIn = <<>>
    /\ nameOut = <<>>

\* Runs over every outcome of every request, on servers whose items are all
\* inside the date range.
Init ==
    InitWith(MainConfigs,
             Servers({dateRange.start},
                     {a \in CommitAuthors : a.raw # <<>>},
                     {a \in PullRequestAuthors : a.display_name = "Alice"}))

Spec == Init /\ [][Next]_vars


\* The same runs under the scheduling Node.js gives: a request that has been
\* sent settles (it resolves, rejects, or its 30 s timeout rejects it), and
\* a timer that has been set fires.
FairSpec ==
    /\ Spec
    /\ WF_vars(StartListing)
    /\ WF_vars(ListOk \/ ListRejected)
    /\ WF_vars(CommitsOk \/ CommitsRejected)
    /\ WF_vars(PullRequestsOk \/ PullRequestsRejected)
    /\ WF_vars(DelayElapsed)

\* Runs on servers whose items lie before, at the ends of and after the
\* date range, by every kind of author.
InitData ==
    InitWith({<<AbsentFile, NoEnvironment>>,
              <<SampleConfig, NoEnvironment>>,
              <<[SampleConfig EXCEPT !.workspace = FALSE], NoEnvironment>>},
             Servers(ItemDates, CommitAuthors, PullRequestAuthors))

SpecData == InitData /\ [][Next]_vars

\* Runs from every configuration, on servers without items.
InitConfig == InitWith(AllConfigs, Servers({}, {}, {}))

SpecConfig == InitConfig /\ [][Next]_vars

(***************************************************************************)
(* Runs against a server whose responses are fixed: besides its content,   *)
(* the page lengths it answers with an error status (makeRequest rejects   *)
(* at line 151).  What is left open in such a run is the order in which    *)
(* the two requests of a repository complete.                              *)
(***************************************************************************)
\* The requests of the two fetches, by kind and page length.
FetchEndpoints ==
    {[kind |-> "commits", pagelen |-> CommitEndpoints[i]] :
        i \in 1..Len(CommitEndpoints)}
    \cup {[kind |-> "pullrequests", pagelen |-> PullRequestEndpoints[i]] :
             i \in 1..Len(PullRequestEndpoints)}

\* The requests a server rejects: for each kind, those asking for pages
\* longer than the longest it serves, or all of them (limit -1).  A page
\* length of 0 is that of the endpoint without a pagelen parameter.
RejectedSets ==
    LET limits == {-1} \cup {e.pagelen : e \in FetchEndpoints}
        over(e, limit) == limit < 0 \/ e.pagelen > limit
    IN  {{e \in FetchEndpoints :
             \/ e.kind = "commits" /\ over(e, c)
             \/ e.kind = "pullrequests" /\ over(e, p)} :
          c \in limits, p \in limits}

\* The servers with up to MaxItems items, all inside the date range, each
\* with the set of requests it rejects.
FixedServers ==
    UNION {{[repos |-> BuildServer(n, ps).repos,
             commits |-> BuildServer(n, ps).commits,
             pullrequests |-> BuildServer(n, ps).pullrequests,
             rejected |-> rej] :
               ps \in SeqsUpTo(Placements(n, {dateRange.start},
                                          {a \in CommitAuthors : a.raw # <<>>},
                                          {a \in PullRequestAuthors :
                                              a.display_name = "Alice"}),
                               MaxItems),
               rej \in RejectedSets} :
           n \in 1..MaxRepos}

\* The server rejects the request of this kind that is in flight.
Rejects(kind) ==
    \E req \in network :
       /\ req.kind = kind
       /\ [kind |-> kind, pagelen |-> req.pagelen] \in server.rejected

CommitsSettled ==
    \/ ~Rejects("commits") /\ CommitsOk
    \/ Rejects("commits") /\ CommitsRejected

PullRequestsSettled ==
    \/ ~Rejects("pullrequests") /\ PullRequestsOk
    \/ Rejects("pullrequests") /\ PullRequestsRejected

InitResponses ==
    /\ InitProgram
    /\ argv = {}
    /\ cfgFile = SampleConfig
    /\ env = NoEnvironment
    /\ server \in FixedServers
    /\ nameIn = <<>>
    /\ nameOut = <<>>

NextResponses ==
    \/ StartListing
    \/ ListOk
    \/ CommitsSettled
    \/ PullRequestsSettled
    \/ DelayElapsed

SpecResponses == InitResponses /\ [][NextResponses]_vars

(***************************************************************************)
(* Runs from a configuration file that names repositories to exclude       *)
(* (Config.excludeRepos, line 11; the README's setup).                     *)
(***************************************************************************)
\* The values of excludeRepos: any of the workspace's repositories, and a
\* name no repository has.
ExcludeLists == SUBSET ({RepoNames[i] : i \in 1..MaxRepos} \cup {<<"x">>})

\* A complete configuration file with an excludeRepos field.
ExcludingConfigs ==
    {[state |-> SampleConfig.state, workspace |-> SampleConfig.workspace,
      username |-> SampleConfig.username, appPassword |-> SampleConfig.appPassword,
      excludeRepos |-> names] : names \in ExcludeLists}

InitExclude ==
    /\ InitProgram
    /\ argv = {}
    /\ cfgFile \in ExcludingConfigs
    /\ env = NoEnvironment
    /\ server \in Servers({dateRange.start},
                          {a \in CommitAuthors : a.user = "Alice A"}, {})
    /\ nameIn = <<>>
    /\ nameOut = <<>>

NextExclude ==
    \/ StartListing
    \/ ListOk
    \/ ListRejected
    \/ CommitsOk
    \/ CommitsRejected
    \/ PullRequestsOk
    \/ PullRequestsRejected
    \/ DelayElapsed

SpecExclude == InitExclude /\ [][NextExclude]_vars

(***************************************************************************)
(* The name normalizer on its own: a name is made into a path segment, and *)
(* the path segment again.                                                 *)
(***************************************************************************)
\* The characters of the names: letters, a digit, the space, the hyphen,
\* the underscore and the parentheses.
AsciiNameChars == {"A", "b", "1", " ", "-", "_", "(", ")"}
NameChars == AsciiNameChars \cup {"U+00C9"}

InitNames ==
    /\ InitProgram
    /\ argv = {}
    /\ cfgFile = AbsentFile
    /\ env = NoEnvironment
    /\ server = BuildServer(0, <<>>)
    /\ nameIn \in SeqsUpTo(NameChars, MaxNameLen)
    /\ nameOut = <<>>

NormalizeName ==
    /\ Len(nameOut) < 2
    /\ nameOut' = Append(nameOut, EncodedRepoName(IF nameOut = <<>> THEN nameIn
                                                  ELSE nameOut[Len(nameOut)]))
    /\ UNCHANGED <<argv, cfgFile, env, server, pc, exitCode, workspace, auth, repos,
                   stats, totalCommits, totalPRs, cur, listing, commitFetch, prFetch,
                   network, progress, warnings, reports, nameIn>>

SpecNormalize == InitNames /\ [][NormalizeName]_vars


(***************************************************************************)
(* Properties.                                                             *)
(***************************************************************************)
\* The records of a map, and how often a record is in it.
RECURSIVE Occurrences(_, _)
Occurrences(records, rec) ==
    IF records = <<>> THEN 0
    ELSE (IF Head(records) = rec THEN 1 ELSE 0) + Occurrences(Tail(records), rec)

RECURSIVE CountInMap(_, _)
CountInMap(map, rec) ==
    IF map = <<>> THEN 0
    ELSE Occurrences(Head(map).records, rec) + CountInMap(Tail(map), rec)

RecordsOf(map) == UNION {{map[i].records[j] : j \in 1..Len(map[i].records)} :
                         i \in 1..Len(map)}

\* The fetch of a kind printed its warning for a repository: every
\* endpoint of its ladder ended in the catch.
FetchFailed(kind, repoName) ==
    \E w \in warnings : w.kind = kind /\ w.repo = repoName

RECURSIVE SumCommits(_)
SumCommits(lines) ==
    IF lines = <<>> THEN 0 ELSE Head(lines).commits + SumCommits(Tail(lines))

\* C1: when the listing fails on all three endpoints (pagelen 100, 50 and
\* none), run() has exited with code 1 and nothing more happens; no report
\* was printed and no repository was ever started, so no commits or
\* pull-requests request was sent.
C1_ListingFailureIsFatal ==
    listing.state = "failed" =>
        /\ listing.tried = <<"rejected", "rejected", "rejected">>
        /\ pc = "exited"
        /\ exitCode = 1
        /\ ~ENABLED Next
        /\ reports = <<>>
        /\ network = {}
        /\ cur = 0
        /\ progress = <<>>
        /\ commitFetch = IdleLadder
        /\ prFetch = IdleLadder

C1_Witness == listing.state = "failed" /\ Len(server.repos) = 2

\* C2: at the report, for a repository whose commit fetch failed on every
\* endpoint while its pull-request fetch returned normally, fetchCommits
\* returned 0, no Commit record of Stats names the repository, and every
\* pull request of its page inside the date range is in Stats; and a run
\* that listed the repositories does not end without the report.
C2_CommitFailureKeepsPullRequests ==
    /\ (pc = "exited" => listing.state # "returned")
    /\ pc = "done" =>
          \A i \in 1..Len(repos) :
             LET page == server.pullrequests[EncodedRepoName(repos[i])]
             IN  (FetchFailed("commits", repos[i])
                     /\ ~FetchFailed("pullrequests", repos[i])) =>
                 /\ progress[i].commits = 0
                 /\ \A r \in RecordsOf(stats.commits) : r.repo # repos[i]
                 /\ \A k \in 1..Len(page) :
                       InDateRange(page[k].created_on, dateRange) =>
                          PullRequestRecord(repos[i], page[k])
                              \in RecordsOf(stats.pullRequests)

\* C3: the report's Total Commits is the sum of the counts fetchCommits
\* returned, and the sum of the lengths of the contributors' sequences, and
\* no commit is in Stats more than once.
C3_TotalCommitsIsSumOfCounts ==
    pc = "done" =>
        /\ reports[1].totalCommits = SumCommits(progress)
        /\ reports[1].totalCommits = totalCommits
        /\ reports[1].totalCommits = SumLengths(stats.commits)
        /\ \A r \in RecordsOf(stats.commits) : CountInMap(stats.commits, r) = 1

\* A commits request of the current repository has just resolved.
CommitsResolved ==
    /\ commitFetch.state = "pending"
    /\ commitFetch' # commitFetch
    /\ commitFetch'.tried[Len(commitFetch'.tried)] \in {"ok", "threw"}

\* C4: when a commits request resolves, a Commit record is appended for an
\* item of the response exactly if its date is inside the date range, ends
\* included.
C4_AppendedIffInRange ==
    [][CommitsResolved =>
         LET page == server.commits[EncodedRepoName(repos[cur])]
         IN  \A k \in 1..Len(page) :
                (CountInMap(stats'.commits, CommitRecord(repos[cur], page[k]))
                    > CountInMap(stats.commits, CommitRecord(repos[cur], page[k])))
                <=> (dateRange.start <= page[k].date /\ page[k].date <= dateRange.end)]_vars

\* C5: the list getRepositories returns holds every repository of the
\* workspace, and at the report each of them has been processed.
C5_EveryRepositoryListed ==
    /\ listing.state = "returned" => repos = server.repos
    /\ pc = "done" =>
          \A i \in 1..Len(server.repos) :
             \E j \in 1..Len(progress) : progress[j].repo = server.repos[i]

CompleteFile(file) ==
    file.state = "parsed" /\ file.workspace /\ file.username /\ file.appPassword

CompleteEnvironment(environment) ==
    environment.workspace /\ environment.username /\ environment.appPassword

\* C6: run without flags, when neither the file nor the environment holds
\* workspace, username and password, sends no request and ends with exit
\* code 1.
C6_IncompleteConfigurationSendsNothing ==
    (argv = {} /\ ~CompleteFile(cfgFile) /\ ~CompleteEnvironment(env)) =>
        /\ network = {}
        /\ listing = IdleLadder
        /\ pc # "start" => (pc = "exited" /\ exitCode = 1)

\* C7: once the listing has succeeded the run comes to its end with exactly
\* one report printed and exit code 0, however the commits and
\* pull-requests requests end; and never is a second report printed.
C7_ReportAfterListing ==
    /\ (listing.state = "returned") ~> (pc = "done" /\ Len(reports) = 1 /\ exitCode = 0)
    /\ [](Len(reports) <= 1)
    /\ [](pc = "done" => Len(reports) = 1)

C7_Witness ==
    /\ pc = "done"
    /\ Len(reports) = 1
    /\ Len(progress) = 2
    /\ \E w \in warnings : w.error = "request failed"
    /\ \E w \in warnings : w.error = "TypeError"

\* C8, as claimed: making a path segment of a path segment changes nothing,
\* for every name of letters, digits, spaces, hyphens, underscores and
\* parentheses.
C8_NormalizeIdempotent ==
    Len(nameOut) = 2 => nameOut[2] = nameOut[1]

\* C8, amended: making a path segment of a path segment changes nothing,
\* for every name of ASCII letters, digits, spaces, hyphens, underscores
\* and parentheses.
C8_NormalizeIdempotentAscii ==
    (Len(nameOut) = 2 /\ \A i \in 1..Len(nameIn) : nameIn[i] \in AsciiNameChars) =>
        nameOut[2] = nameOut[1]

C8_Witness ==
    /\ Len(nameOut) = 2
    /\ nameIn = <<"A", " ", "(">>
    /\ nameOut[1] = <<"a", "-">>

\* The pagelen of the endpoints of each ladder, in the order claimed.
ClaimedEndpoints(kind) ==
    CASE kind = "repositories" -> <<100, 50, 0>>
      [] kind = "commits" -> <<50, 0>>
      [] kind = "pullrequests" -> <<50, 25, 0>>

\* One step of a ladder: a request is sent either first of its ladder, or
\* right after the endpoint before it failed, every earlier endpoint having
\* failed; the request sent is the endpoint at that place of the claimed
\* order; and a ladder that has returned awaits no request.
LadderStep(kind, old, new) ==
    /\ (new.state = "pending" /\ new # old) =>
          /\ \/ /\ old.state # "pending"
                /\ new.step = 1
                /\ new.tried = <<>>
             \/ /\ old.state = "pending"
                /\ new.step = old.step + 1
                /\ \E failure \in {"rejected", "threw"} :
                      new.tried = Append(old.tried, failure)
          /\ Len(new.tried) = new.step - 1
          /\ \A i \in 1..Len(new.tried) : new.tried[i] \in {"rejected", "threw"}
          /\ new.step <= Len(ClaimedEndpoints(kind))
          /\ \E req \in network' \ network :
                req.kind = kind /\ req.pagelen = ClaimedEndpoints(kind)[new.step]
    /\ \A req \in network' \ network :
          req.kind = kind => (new.state = "pending" /\ new # old)
    /\ new.state # "pending" => \A req \in network' : req.kind # kind

\* C9: in each ladder the endpoints are requested in the order claimed, one
\* only after every earlier one has failed (its request rejected, or the
\* handling of its response threw); the first that succeeds gives the
\* result, and after it the ladder requests nothing.
C9_LadderOrder ==
    [][/\ LadderStep("repositories", listing, listing')
       /\ LadderStep("commits", commitFetch, commitFetch')
       /\ LadderStep("pullrequests", prFetch, prFetch')
       /\ (listing.state = "pending" /\ listing'.state = "returned") =>
             /\ repos' \in FirstPages(server.repos)
             /\ listing'.result = Len(repos')
       /\ (commitFetch.state = "pending" /\ commitFetch'.tried = <<"ok">>) =>
             commitFetch'.result =
                Len(FilterCommits(server.commits[EncodedRepoName(repos[cur])], dateRange))
       /\ (prFetch.state = "pending" /\ prFetch'.tried = <<"ok">>) =>
             prFetch'.result =
                Len(FilterPullRequests(server.pullrequests[EncodedRepoName(repos[cur])],
                                       dateRange))]_vars

C9_Witness ==
    /\ listing.state = "returned"
    /\ commitFetch.state = "pending" /\ commitFetch.step = 2
    /\ prFetch.state = "pending" /\ prFetch.step = 3
    /\ cur = 2

\* The requests in flight for repositories' commits and pull requests.
FetchRequests(net) == {req \in net : req.kind # "repositories"}

\* C10: the requests in flight are at every moment those of one
\* repository, the current one, at most one for its commits and one for
\* its pull requests; the repositories are processed in the listed order;
\* and a request for another repository is sent only when both fetches of
\* the repository before it have returned and none of its requests is in
\* flight.
C10_OneRepositoryAtATime ==
    /\ [](/\ \A a \in FetchRequests(network) :
               /\ cur \in 1..Len(repos)
               /\ a.repo = EncodedRepoName(repos[cur])
               /\ \A b \in FetchRequests(network) : a.kind = b.kind => a = b
          /\ Len(progress) <= Len(repos)
          /\ \A i \in 1..Len(progress) : progress[i].repo = repos[i])
    /\ [][(FetchRequests(network') # {} /\ cur' # cur) =>
             /\ cur' = cur + 1
             /\ Len(progress) = cur
             /\ FetchRequests(network) = {}
             /\ commitFetch.state # "pending"
             /\ prFetch.state # "pending"]_vars

C10_Witness ==
    /\ pc = "collecting"
    /\ cur = 2
    /\ Cardinality(FetchRequests(network)) = 2

\* fetchCommits run on its own against the server, from its endpoint
\* number step on: the mapping of commits it leaves.
RECURSIVE CommitsAlone(_, _, _)
CommitsAlone(map, repoName, step) ==
    IF step > Len(CommitEndpoints)
    THEN map
    ELSE IF [kind |-> "commits", pagelen |-> CommitEndpoints[step]] \in server.rejected
    THEN CommitsAlone(map, repoName, step + 1)
    ELSE LET pushed == PushCommits(map, repoName,
                           FilterCommits(server.commits[EncodedRepoName(repoName)],
                                         dateRange))
         IN  IF pushed.threw
             THEN CommitsAlone(pushed.map, repoName, step + 1)
             ELSE pushed.map

\* fetchPullRequests run on its own, likewise.
RECURSIVE PullRequestsAlone(_, _, _)
PullRequestsAlone(map, repoName, step) ==
    IF step > Len(PullRequestEndpoints)
    THEN map
    ELSE IF [kind |-> "pullrequests", pagelen |-> PullRequestEndpoints[step]]
               \in server.rejected
    THEN PullRequestsAlone(map, repoName, step + 1)
    ELSE LET pushed == PushPullRequests(map, repoName,
                           FilterPullRequests(
                               server.pullrequests[EncodedRepoName(repoName)],
                               dateRange))
         IN  IF pushed.threw
             THEN PullRequestsAlone(pushed.map, repoName, step + 1)
             ELSE pushed.map

\* The Stats of a run that takes the repositories one after the other and,
\* for each, lets fetchCommits finish before fetchPullRequests starts.
RECURSIVE OneAtATime(_)
OneAtATime(repositories) ==
    IF repositories = <<>>
    THEN [commits |-> <<>>, pullRequests |-> <<>>]
    ELSE LET before == OneAtATime(SubSeq(repositories, 1, Len(repositories) - 1))
             repoName == repositories[Len(repositories)]
         IN  [commits |-> CommitsAlone(before.commits, repoName, 1),
              pullRequests |-> PullRequestsAlone(before.pullRequests, repoName, 1)]

\* The place of a repository in this.repos.
RepoIndex(repoName) == CHOOSE i \in 1..Len(repos) : repos[i] = repoName

\* The records of every contributor are in the order the repositories were
\* processed in.
InProcessingOrder(map) ==
    \A e \in 1..Len(map) :
       \A i, j \in 1..Len(map[e].records) :
          i < j => RepoIndex(map[e].records[i].repo) <= RepoIndex(map[e].records[j].repo)

\* C11: for fixed server responses, however the completions of the commit
\* and pull-request requests of a repository interleave, once a repository
\* is finished (and so at the end of the run) the two mappings of Stats are
\* those of the run that performs the fetches one at a time, and at every
\* moment the records of each contributor are ordered by repository
\* processing order.
C11_StatsIndependentOfInterleaving ==
    /\ pc \in {"delay", "done"} => stats = OneAtATime(SubSeq(repos, 1, cur))
    /\ pc \in {"collecting", "delay", "done"} =>
          /\ InProcessingOrder(stats.commits)
          /\ InProcessingOrder(stats.pullRequests)

\* C11's case: a finished run over two repositories in which the commit
\* fetch and the pull-request fetch of the second repository, in flight
\* together, have both appended a record.
C11_Witness ==
    /\ pc = "done"
    /\ Len(repos) = 2
    /\ \E c \in RecordsOf(stats.commits), p \in RecordsOf(stats.pullRequests) :
          c.repo = repos[2] /\ p.repo = repos[2]

\* The repositories collection has been run for, in order: those whose
\* progress line is printed, and the one being collected.
Collected ==
    [i \in 1..Len(progress) |-> progress[i].repo]
    \o (IF pc = "collecting" THEN <<repos[cur]>> ELSE <<>>)

\* C12: whatever the configuration's excludeRepos holds, the repositories
\* collection is run for are those of the list the listing returned, in its
\* order, names of excludeRepos included: the list is the page the server
\* answered with, collection goes through it from its start, the requests
\* in flight name the repository reached, and at the report all of the
\* list has been collected.
C12_ExcludeReposNeverApplied ==
    pc \in {"collecting", "delay", "done"} =>
       /\ repos = SubSeq(server.repos, 1, listing.result)
       /\ Collected = SubSeq(repos, 1, cur)
       /\ \A req \in FetchRequests(network) : req.repo = EncodedRepoName(repos[cur])
       /\ pc = "done" => Collected = repos

\* C12's case: a finished run over two listed repositories, the second of
\* them named in excludeRepos, whose commits were collected.
C12_Witness ==
    /\ pc = "done"
    /\ Len(repos) = 2
    /\ repos[2] \in cfgFile.excludeRepos
    /\ repos[1] \notin cfgFile.excludeRepos
    /\ \E i \in 1..Len(progress) : progress[i].repo = repos[2] /\ progress[i].commits > 0
    /\ \E c \in RecordsOf(stats.commits) : c.repo = repos[2]

=============================================================================
